---- MODULE Spec2Model ----
(***************************************************************************)
(* The topology graph engine of msgtier-web: updateGraph and the handlers  *)
(* around it in src/src/components/NetworkGraph.vue, with the part of the  *)
(* d3-force simulation they drive (nodes, link force, alpha, timer).       *)
(*                                                                         *)
(* Numbers: bandwidth is counted in tenths of a Mbps, alpha in thousandths,*)
(* a latency is an exact fraction [num, den] in lowest terms.  Address     *)
(* parsing, colours and the SVG selections do not influence any modelled   *)
(* field and are left out.                                                 *)
(***************************************************************************)
EXTENDS Integers, Sequences, FiniteSets, TLC

VARIABLES
    phase,        \* "init" (set up, not mounted), "mounted", "unmounted"
    apiData,      \* stores/data.ts apiData.value
    pending,      \* the watch(apiData) job is queued and not yet flushed
    client,       \* size of the svg container element, <<width, height>>
    width,        \* module-level width
    height,       \* module-level height
    nodes,        \* simulation.nodes(), a sequence of GraphNode records
    links,        \* newLinks of the last updateGraph (bound to the DOM)
    forceLinks,   \* the links held by the link force, with what each end is
    forceLen,     \* length of the link force's bias/strengths/distances arrays
    alpha,        \* simulation.alpha(), in thousandths
    alphaTarget,  \* simulation.alphaTarget(), in thousandths
    running,      \* the simulation's timer is scheduled
    drag,         \* the drag gesture in progress, or NoDrag
    last,         \* the handler that ran last: see CallOf; no handler reads it
    nodePositions, \* the Map nodePositions: saved x, y, vx, vy by node id
    chat,         \* Chat.vue: the component's sockets, timers and refs
    poll          \* dataService.ts: fetchInterval, requests in flight, status

vars == <<phase, apiData, pending, client, width, height, nodes, links,
          forceLinks, forceLen, alpha, alphaTarget, running, drag, last,
          nodePositions, chat, poll>>

\* The variables of the graph component and of the store it reads.
graphVars == <<phase, apiData, pending, client, width, height, nodes, links,
               forceLinks, forceLen, alpha, alphaTarget, running, drag,
               nodePositions>>

\* Chat.vue before the component is mounted: socket null, isConnected
\* false, lastPong 0, heartbeatTimer null, no timer pending.  sockets lists
\* the readyState of the WebSocket objects that can still raise an event,
\* the last being socket.value; an entry of lastPong is the time in seconds
\* since the instant it holds; intervals and timeouts hold the seconds left
\* of each live setInterval and setTimeout.
ChatIdle ==
    [phase |-> "init", sockets |-> <<>>, isConnected |-> FALSE,
     lastPong |-> <<>>, intervals |-> {}, heartbeatTimer |-> <<>>,
     timeouts |-> <<>>, ev |-> "none"]

\* dataService.ts before startDataFetching: fetchInterval null,
\* connectionStatus 'disconnected', no request in flight.  requests holds
\* the fetches awaiting their response, each with the url of its closure
\* and its issue number; issued counts the fetches issued so far.
PollIdle ==
    [fetchInterval |-> <<>>, connectionStatus |-> "disconnected",
     requests |-> {}, issued |-> 0, ev |-> "none"]

(***************************************************************************)
(* Bounds of the model.                                                    *)
(***************************************************************************)
\* Connection records in one enumerated snapshot of SpecLinks.
MaxConns == 2

\* Peer ids; JavaScript's default sort orders them "B" < "C" < "self".
PeerIds == {"self", "B", "C"}

IdRank(id) == CASE id = "B" -> 1 [] id = "C" -> 2 [] id = "self" -> 3

\* Connection ids; "" is a record without an id (conn.id is falsy).
ConnIds == {"", "x", "y"}

(***************************************************************************)
(* Helpers for sequences and fractions.                                    *)
(***************************************************************************)
Range(s) == {s[i] : i \in DOMAIN s}

RECURSIVE SumSeq(_)
SumSeq(s) == IF s = <<>> THEN 0 ELSE Head(s) + SumSeq(Tail(s))

RECURSIVE Concat(_)
Concat(ss) == IF ss = <<>> THEN <<>> ELSE Head(ss) \o Concat(Tail(ss))

RECURSIVE GCD(_, _)
GCD(a, b) == IF b = 0 THEN a ELSE GCD(b, a % b)

\* The number a / b (b > 0, a >= 0) in lowest terms.
Frac(a, b) ==
    LET g == GCD(a, b) IN [num |-> a \div g, den |-> b \div g]

\* The distinct values of s in order of first occurrence (Map insertion order).
RECURSIVE Distinct(_)
Distinct(s) ==
    IF s = <<>> THEN <<>>
    ELSE LET r == Distinct(SubSeq(s, 1, Len(s) - 1))
             x == s[Len(s)]
         IN  IF x \in Range(r) THEN r ELSE Append(r, x)

(***************************************************************************)
(* updateGraph, link construction (NetworkGraph.vue 398-524).              *)
(***************************************************************************)
\* conn.bandwidth_mbps || 0
Bandwidth(conn) ==
    IF "bandwidth_mbps" \in DOMAIN conn THEN conn.bandwidth_mbps ELSE 0

\* conn.latency_ms || (latency_history?.length ? last of history : 0)
Latency(conn) ==
    IF "latency_ms" \in DOMAIN conn /\ conn.latency_ms # 0
    THEN conn.latency_ms
    ELSE IF "latency_history" \in DOMAIN conn /\ Len(conn.latency_history) > 0
         THEN conn.latency_history[Len(conn.latency_history)]
         ELSE 0

\* The linkData object of one connection record.
LinkData(peer, conn, index) ==
    [source |-> peer.id, target |-> conn.peer_id,
     bandwidth |-> Bandwidth(conn), latency |-> Latency(conn),
     id |-> conn.id, originalIndex |-> index]

SkipNone(sourceId, targetId) == FALSE

\* "Skip self-loops": if (sourceId === targetId) return;
SkipSelfLoop(sourceId, targetId) == sourceId = targetId

\* The linkData of one peer's connections, self-loops skipped; index is the
\* 0-based position in peer.connections.
PeerLinkData(peer) ==
    LET idx == SelectSeq([i \in 1..Len(peer.connections) |-> i],
                   LAMBDA i : ~SkipSelfLoop(peer.id, peer.connections[i].peer_id))
    IN  [k \in 1..Len(idx) |-> LinkData(peer, peer.connections[idx[k]], idx[k] - 1)]

\* All linkData of a snapshot, in the order data.peers.forEach visits them.
AllLinkData(data) ==
    Concat([p \in 1..Len(data.peers) |-> PeerLinkData(data.peers[p])])

\* connectionMap.get(connId): the records carrying connId, in push order.
ConnGroup(all, connId) == SelectSeq(all, LAMBDA l : l.id = connId)

StandaloneNone(all) == <<>>

\* standaloneLinks: the records without an id.
StandaloneLinks(all) == SelectSeq(all, LAMBDA l : l.id = "")

\* avgLatency = links.reduce((sum, l) => sum + l.latency, 0) / links.length
AvgLatency(ls) ==
    Frac(SumSeq([i \in 1..Len(ls) |-> ls[i].latency]), Len(ls))

BandwidthOfBase(ls) == ls[1].bandwidth

\* totalBandwidth = links.reduce((sum, l) => sum + l.bandwidth, 0)
TotalBandwidth(ls) == SumSeq([i \in 1..Len(ls) |-> ls[i].bandwidth])

\* One entry of connectionMap.forEach: a merged link for two or more
\* records, otherwise the single record as "conn-<id>".
LogicalOfGroup(ls, connId) ==
    IF Len(ls) > 1
    THEN [id |-> "merged-" \o connId, source |-> ls[1].source,
          target |-> ls[1].target, isBidirectional |-> TRUE,
          bandwidth |-> TotalBandwidth(ls), latency |-> AvgLatency(ls),
          curvatureOffset |-> 0]
    ELSE [id |-> "conn-" \o connId, source |-> ls[1].source,
          target |-> ls[1].target, isBidirectional |-> FALSE,
          bandwidth |-> ls[1].bandwidth, latency |-> Frac(ls[1].latency, 1),
          curvatureOffset |-> 0]

StandaloneWithoutIndex(l) ==
    [id |-> l.source \o "-" \o l.target,
     source |-> l.source, target |-> l.target, isBidirectional |-> FALSE,
     bandwidth |-> l.bandwidth, latency |-> Frac(l.latency, 1),
     curvatureOffset |-> 0]

\* A record without an id, as "<source>-<target>-<index>".
LogicalOfStandalone(l) ==
    [id |-> l.source \o "-" \o l.target \o "-" \o ToString(l.originalIndex),
     source |-> l.source, target |-> l.target, isBidirectional |-> FALSE,
     bandwidth |-> l.bandwidth, latency |-> Frac(l.latency, 1),
     curvatureOffset |-> 0]

\* logicalLinks: the connectionMap entries in insertion order, then the
\* standalone links.
LogicalLinks(data) ==
    LET all  == AllLinkData(data)
        keys == Distinct(SelectSeq([i \in 1..Len(all) |-> all[i].id],
                                   LAMBDA k : k # ""))
        sl   == StandaloneLinks(all)
    IN  [k \in 1..Len(keys) |-> LogicalOfGroup(ConnGroup(all, keys[k]), keys[k])]
        \o [k \in 1..Len(sl) |-> LogicalOfStandalone(sl[k])]

\* [s, t].sort(): the pair in canonical order, <<id1, id2>>.
PairKey(s, t) == IF IdRank(s) <= IdRank(t) THEN <<s, t>> ELSE <<t, s>>

OffsetUnsigned(link, key, i, n) == (2 * i - (n - 1)) * 25

\* (i - (n - 1) / 2) * spacing with spacing = 50, negated for a link whose
\* source is not id1 of the key; i is the 0-based index in the group.
Offset(link, key, i, n) ==
    LET offset == (2 * i - (n - 1)) * 25
    IN  IF link.source = key[1] THEN offset ELSE -offset

\* newLinks: the pair groups in insertion order, each link with its offset.
NewLinks(data) ==
    LET ll   == LogicalLinks(data)
        keys == Distinct([i \in 1..Len(ll) |-> PairKey(ll[i].source, ll[i].target)])
        Group(key) == SelectSeq(ll, LAMBDA l : PairKey(l.source, l.target) = key)
        Assigned(key) ==
            LET g == Group(key)
            IN  [i \in 1..Len(g) |->
                    [g[i] EXCEPT !.curvatureOffset = Offset(g[i], key, i - 1, Len(g))]]
    IN  Concat([k \in 1..Len(keys) |-> Assigned(keys[k])])

(***************************************************************************)
(* updateGraph, node construction (NetworkGraph.vue 361-396).              *)
(***************************************************************************)
\* An unset optional number (undefined or null) is <<>>, a set one is <<v>>.
None == <<>>
Some(v) == <<v>>
IsSet(o) == o # <<>>

NodeIds(ns) == {ns[i].id : i \in DOMAIN ns}

PeerIdsOf(data) == {data.peers[i].id : i \in DOMAIN data.peers}

\* currentNodesMap.get(id), for an id the simulation holds.
NodeOf(ns, id) == ns[CHOOSE i \in DOMAIN ns : ns[i].id = id]

NodesChangedBySize(cur, data) ==
    Cardinality(NodeIds(cur)) # Cardinality(PeerIdsOf(data))

\* currentNodeIds.size !== newNodeIds.size
\*   || [...currentNodeIds].some(id => !newNodeIds.has(id))
NodesChanged(cur, data) ==
    \/ Cardinality(NodeIds(cur)) # Cardinality(PeerIdsOf(data))
    \/ \E id \in NodeIds(cur) : id \notin PeerIdsOf(data)

SelfNever(peer, data) == FALSE

\* const isSelf = peer.id === data.peer_id
IsSelf(peer, data) == peer.id = data.peer_id

ReuseAtCentre(existing, peer, data, w, h) ==
    [existing EXCEPT !.type = IF IsSelf(peer, data) THEN "self" ELSE "peer",
                     !.x = w \div 2, !.y = h \div 2]

ReuseUnpinned(existing, peer, data, w, h) ==
    IF IsSelf(peer, data)
    THEN [existing EXCEPT !.type = "self",
                          !.fx = Some(w \div 2), !.fy = Some(h \div 2)]
    ELSE [existing EXCEPT !.type = "peer", !.fx = None, !.fy = None]

\* A node object that is reused: name, type and ips are refreshed, the self
\* node is pinned at the centre, everything else is kept.
ReuseNode(existing, peer, data, w, h) ==
    IF IsSelf(peer, data)
    THEN [existing EXCEPT !.type = "self",
                          !.fx = Some(w \div 2), !.fy = Some(h \div 2)]
    ELSE [existing EXCEPT !.type = "peer"]

\* A node object for an id the simulation does not hold; jit is the pair of
\* values drawn for (Math.random() - 0.5) * 50.  vx and vy are not set, so
\* they are not numbers until initializeNodes runs.
CreateNode(peer, data, w, h, jit) ==
    [id |-> peer.id,
     type |-> IF IsSelf(peer, data) THEN "self" ELSE "peer",
     x |-> w \div 2 + jit[1], y |-> h \div 2 + jit[2],
     vx |-> 0, vy |-> 0, vNaN |-> TRUE,
     fx |-> IF IsSelf(peer, data) THEN Some(w \div 2) ELSE None,
     fy |-> IF IsSelf(peer, data) THEN Some(h \div 2) ELSE None]

NewNodesFresh(data, cur, w, h, jits) ==
    [i \in 1..Len(data.peers) |-> CreateNode(data.peers[i], data, w, h, jits[i])]

\* const newNodes = data.peers.map(...)
NewNodes(data, cur, w, h, jits) ==
    [i \in 1..Len(data.peers) |->
        IF data.peers[i].id \in NodeIds(cur)
        THEN ReuseNode(NodeOf(cur, data.peers[i].id), data.peers[i], data, w, h)
        ELSE CreateNode(data.peers[i], data, w, h, jits[i])]

(***************************************************************************)
(* d3-force as driven by updateGraph (NetworkGraph.vue 751-775, 980-985).  *)
(***************************************************************************)
\* simulation.nodes(newNodes) runs initializeNodes: a pinned coordinate is
\* moved to its pin, and a velocity that is not a number becomes 0.
InitializeNode(n) ==
    [n EXCEPT !.x = IF IsSet(n.fx) THEN n.fx[1] ELSE n.x,
              !.y = IF IsSet(n.fy) THEN n.fy[1] ELSE n.y,
              !.vx = IF n.vNaN THEN 0 ELSE n.vx,
              !.vy = IF n.vNaN THEN 0 ELSE n.vy,
              !.vNaN = FALSE]

InitializeNodes(ns) == [i \in DOMAIN ns |-> InitializeNode(ns[i])]

\* The link force keeps, for each end of each link, either the id string
\* ("str"), the node object of the simulation with that id ("obj"), or an
\* object the simulation no longer holds ("dead").
FreshForceLinks(ls) ==
    [i \in DOMAIN ls |-> [source |-> ls[i].source, target |-> ls[i].target,
                          s |-> "str", t |-> "str"]]

\* Objects that are not reused leave the simulation.
MarkDead(fl, keptIds) ==
    [i \in DOMAIN fl |->
        [fl[i] EXCEPT
            !.s = IF fl[i].s = "obj" /\ fl[i].source \notin keptIds THEN "dead" ELSE @,
            !.t = IF fl[i].t = "obj" /\ fl[i].target \notin keptIds THEN "dead" ELSE @]]

\* The link force's initialize(): every end that is still an id string is
\* looked up among the nodes, in order; the first id that is missing throws
\* "node not found" and leaves the rest unresolved.
RECURSIVE ResolveFrom(_, _, _)
ResolveFrom(fl, ids, i) ==
    IF i > Len(fl) THEN [links |-> fl, ok |-> TRUE]
    ELSE IF fl[i].s = "str" /\ fl[i].source \notin ids
         THEN [links |-> fl, ok |-> FALSE]
    ELSE LET a == [fl EXCEPT ![i].s = IF @ = "str" THEN "obj" ELSE @]
         IN  IF a[i].t = "str" /\ a[i].target \notin ids
             THEN [links |-> a, ok |-> FALSE]
             ELSE ResolveFrom([a EXCEPT ![i].t = IF @ = "str" THEN "obj" ELSE @],
                              ids, i + 1)

InitializeLinks(fl, ids) == ResolveFrom(fl, ids, 1)

\* The link force holds an end that is still an id string: its force(alpha)
\* throws on every tick.
Broken(fl) == \E i \in DOMAIN fl : fl[i].s = "str" \/ fl[i].t = "str"

ReheatAlways(changed, a) == 1000

\* if (nodesChanged) simulation.alpha(1).restart(); else simulation.restart();
Reheat(changed, a) == IF changed THEN 1000 ELSE a

KeepWarmNever(a) == a

\* if (simulation.alpha() < 0.1) simulation.alpha(0.3).restart();
KeepWarm(a) == IF a < 100 THEN 300 ELSE a

\* updateGraph(data) from the state st = [nodes, forceLinks, forceLen, alpha,
\* running, drag] with the viewport w x h and the random draws jits: the
\* state it leaves.  thrown tells whether the call ended in an exception.
UpdateGraph(data, st, w, h, jits) ==
    LET changed  == NodesChanged(st.nodes, data)
        newNodes == NewNodes(data, st.nodes, w, h, jits)
        newLinks == NewLinks(data)
        ids      == NodeIds(newNodes)
        kept     == ids \cap NodeIds(st.nodes)
        ns       == InitializeNodes(newNodes)
        dr       == IF st.drag.active /\ st.drag.attached
                    THEN IF st.drag.id \in kept
                         THEN st.drag
                         ELSE [st.drag EXCEPT !.attached = FALSE, !.id = "",
                                  !.type = NodeOf(st.nodes, st.drag.id).type]
                    ELSE st.drag
        r1       == InitializeLinks(MarkDead(st.forceLinks, kept), ids)
        r2       == InitializeLinks(FreshForceLinks(newLinks), ids)
        base     == [nodes |-> ns, links |-> newLinks, drag |-> dr,
                     forceLinks |-> r1.links, forceLen |-> st.forceLen,
                     alpha |-> st.alpha, running |-> st.running, thrown |-> TRUE]
    IN  IF ~r1.ok THEN base                       \* simulation.nodes(newNodes) throws
        ELSE IF ~r2.ok                            \* forceLink.links(newLinks) throws
             THEN [base EXCEPT !.forceLinks = r2.links,
                               !.forceLen = Len(st.forceLinks)]
             ELSE [base EXCEPT !.forceLinks = r2.links,
                               !.forceLen = Len(newLinks),
                               !.alpha = KeepWarm(Reheat(changed, st.alpha)),
                               !.running = TRUE,
                               !.thrown = FALSE]

(***************************************************************************)
(* The environment: viewport sizes, random draws, forces, pointer, and the *)
(* snapshots the data service delivers.                                    *)
(***************************************************************************)
\* Sizes of the svg container, <<width, height>>.
Sizes == {<<400, 300>>, <<200, 160>>}

\* Values of the pair of draws (Math.random() - 0.5) * 50, each in [-25, 25).
Jitters == {<<-25, 24>>, <<24, -25>>}

\* Displacements <<vx, vy>> the forces can give the free nodes in one tick;
\* the model moves all free nodes of a tick by the same one.
Kicks == {<<0, 0>>, <<500, -500>>}

\* Pointer positions of a drag gesture.
Pointers == {<<-30, 900>>}

\* Values of alpha the model tells apart: 1000 is alpha = 1, 300 stands for
\* any alpha in [0.1, 1), 50 for any alpha in [alphaMin, 0.1) and 0 for any
\* alpha below alphaMin = 0.001.
AlphaGrid == {0, 50, 300, 1000}

Conn(target, connId, bw, lat) ==
    [peer_id |-> target, id |-> connId, bandwidth_mbps |-> bw, latency_ms |-> lat]

Peer(id, conns) == [id |-> id, connections |-> conns]

Snapshot(selfId, peers) == [peer_id |-> selfId, peers |-> peers]

\* The snapshots of Spec: at most two peers each.  In the fourth, self
\* reports a connection to C, which is not among the peers.
Snapshots ==
    { Snapshot("self", <<Peer("self", <<>>), Peer("B", <<>>)>>),
      Snapshot("self", <<Peer("self", <<Conn("B", "x", 10, 10)>>),
                         Peer("B", <<Conn("self", "x", 10, 20)>>)>>),
      Snapshot("self", <<Peer("self", <<>>), Peer("C", <<>>)>>),
      Snapshot("self", <<Peer("self", <<Conn("B", "", 5, 10), Conn("C", "", 5, 10)>>),
                         Peer("B", <<>>)>>),
      Snapshot("B", <<Peer("self", <<>>), Peer("B", <<>>)>>),
      Snapshot("self", <<Peer("B", <<>>)>>) }

\* The snapshot delivered after the graph is unmounted.
LateSnapshots ==
    { Snapshot("self", <<Peer("self", <<>>), Peer("C", <<>>)>>) }

\* No gesture.  A gesture in progress names the node it started on while
\* that node object is in the simulation (attached); once the object has
\* left the simulation it keeps only the object's type.
NoDrag == [active |-> FALSE, id |-> "", attached |-> FALSE, type |-> "peer"]

\* The fields updateGraph reads and writes, as a record.
Engine ==
    [nodes |-> nodes, forceLinks |-> forceLinks, forceLen |-> forceLen,
     alpha |-> alpha, running |-> running, drag |-> drag]

\* The random draws of one updateGraph call: a pair per peer of the snapshot.
JitterChoices(data, cur) ==
    { j \in [1..Len(data.peers) -> Jitters] :
        \A i \in 1..Len(data.peers) :
            data.peers[i].id \in NodeIds(cur) => j[i] = <<-25, 24>> }

Install(r) ==
    /\ nodes' = r.nodes
    /\ links' = r.links
    /\ forceLinks' = r.forceLinks
    /\ forceLen' = r.forceLen
    /\ alpha' = r.alpha
    /\ running' = r.running
    /\ drag' = r.drag

(***************************************************************************)
(* The handlers.                                                           *)
(***************************************************************************)
\* What last records: an updateGraph call (with the node ids the simulation
\* held when it began and whether it ended in an exception), or any other
\* handler.
CallOf(st, r) == [op |-> "update", ids |-> NodeIds(st.nodes), thrown |-> r.thrown]

Other == [op |-> "other", ids |-> {}, thrown |-> FALSE]

\* One updateGraph call on data from the engine state st.
Call(data, st, w, h) ==
    \E j \in JitterChoices(data, st.nodes) :
        LET r == UpdateGraph(data, st, w, h, j)
        IN  Install(r) /\ last' = CallOf(st, r)

\* onMounted: initializeGraph() creates the simulation (d3 starts it with
\* alpha 1 and a running timer) and reads the container size; then
\* updateGraph(apiData.value) if there is data.
OnMounted ==
    /\ phase = "init"
    /\ phase' = "mounted"
    /\ width' = client[1]
    /\ height' = client[2]
    /\ LET fresh == [nodes |-> <<>>, forceLinks |-> <<>>, forceLen |-> 0,
                     alpha |-> 1000, running |-> TRUE, drag |-> NoDrag]
       IN  IF IsSet(apiData)
           THEN Call(apiData[1], fresh, client[1], client[2])
           ELSE /\ Install([nodes |-> <<>>, links |-> <<>>, forceLinks |-> <<>>,
                            forceLen |-> 0, alpha |-> 1000, running |-> TRUE,
                            drag |-> NoDrag])
                /\ last' = Other
    /\ alphaTarget' = 0
    /\ UNCHANGED <<apiData, pending, client>>
    /\ UNCHANGED nodePositions
    /\ UNCHANGED <<chat, poll>>

\* watch(apiData, newData => { if (newData) updateGraph(newData) }): the
\* queued watcher job runs.
FlushWatcher ==
    /\ pending
    /\ pending' = FALSE
    /\ IF IsSet(apiData)
       THEN Call(apiData[1], Engine, width, height)
       ELSE /\ UNCHANGED <<nodes, links, forceLinks, forceLen, alpha, running, drag>>
            /\ last' = Other
    /\ UNCHANGED <<phase, apiData, client, width, height, alphaTarget>>
    /\ UNCHANGED nodePositions
    /\ UNCHANGED <<chat, poll>>

\* dataService.ts fetchData: apiData.value = data.  While the graph is
\* mounted the write queues the watcher job, which is flushed in the same
\* turn of the event loop, before any timer, observer or pointer event: the
\* write and the flush are one step.
Deliver(d) ==
    /\ phase = "mounted"
    /\ ~pending
    /\ apiData' = Some(d)
    /\ pending' = FALSE
    /\ Call(d, Engine, width, height)
    /\ UNCHANGED <<phase, client, width, height, alphaTarget>>
    /\ UNCHANGED nodePositions
    /\ UNCHANGED <<chat, poll>>

\* The same write after onUnmounted: Vue has stopped the component's
\* watcher, nothing follows the write.
DeliverLate(d) ==
    /\ phase = "unmounted"
    /\ apiData' = Some(d)
    /\ last' = Other
    /\ UNCHANGED <<phase, pending, client, width, height, nodes, links,
                   forceLinks, forceLen, alpha, alphaTarget, running, drag>>
    /\ UNCHANGED nodePositions
    /\ UNCHANGED <<chat, poll>>

\* The ResizeObserver callback: width and height follow the container, and
\* simulation.alpha(0.3).restart().
Resize(size) ==
    /\ phase = "mounted"
    /\ ~pending
    /\ client' = size
    /\ width' = size[1]
    /\ height' = size[2]
    /\ alpha' = 300
    /\ running' = TRUE
    /\ last' = Other
    /\ UNCHANGED <<phase, apiData, pending, nodes, links, forceLinks, forceLen,
                   alphaTarget, drag>>
    /\ UNCHANGED nodePositions
    /\ UNCHANGED <<chat, poll>>

OnUnmountedTimerKept ==
    /\ phase = "mounted"
    /\ ~pending
    /\ ~drag.active
    /\ phase' = "unmounted"
    /\ running' = running
    /\ last' = Other
    /\ UNCHANGED <<apiData, pending, client, width, height, nodes, links,
                   forceLinks, forceLen, alpha, alphaTarget, drag>>
    /\ UNCHANGED nodePositions
    /\ UNCHANGED <<chat, poll>>

\* onUnmounted: simulation.stop() and resizeObserver.disconnect(); Vue stops
\* the component's watcher.  The model leaves the view between gestures.
OnUnmounted ==
    /\ phase = "mounted"
    /\ ~pending
    /\ ~drag.active
    /\ phase' = "unmounted"
    /\ running' = FALSE
    /\ last' = Other
    /\ UNCHANGED <<apiData, pending, client, width, height, nodes, links,
                   forceLinks, forceLen, alpha, alphaTarget, drag>>
    /\ UNCHANGED nodePositions
    /\ UNCHANGED <<chat, poll>>

(***************************************************************************)
(* The simulation's timer callback: d3's step() = tick(), then the "tick"  *)
(* handler of updateGraph (NetworkGraph.vue 776-788), then the stop test.  *)
(***************************************************************************)
\* alpha += (alphaTarget - alpha) * alphaDecay moves alpha strictly towards
\* alphaTarget: on the grid it reaches the next value towards the target, or
\* stays within the range its value stands for.
AlphaAfterTick(a, t) ==
    IF a = t THEN {a}
    ELSE LET towards == IF a > t THEN {g \in AlphaGrid : t <= g /\ g < a}
                                 ELSE {g \in AlphaGrid : a < g /\ g <= t}
             next == IF a > t
                     THEN CHOOSE g \in towards : \A o \in towards : o <= g
                     ELSE CHOOSE g \in towards : \A o \in towards : g <= o
         IN  IF a \in {50, 300} THEN {a, next} ELSE {next}

Radius(n) == IF n.type = "self" THEN 25 ELSE 18

ClampNone(n, w, h) == n

\* d.x = Math.max(r + padding, Math.min(width - r - padding, d.x)), and the
\* same for d.y with height; padding = 20.
Clamp(n, w, h) ==
    LET r == Radius(n)
        Max(a, b) == IF a >= b THEN a ELSE b
        Min(a, b) == IF a <= b THEN a ELSE b
    IN  [n EXCEPT !.x = Max(r + 20, Min(w - r - 20, n.x)),
                  !.y = Max(r + 20, Min(h - r - 20, n.y))]

\* d3's position step for one node; k is the velocity <<vx, vy>> the forces
\* and the velocity decay leave a free node with.
MoveNode(n, k) ==
    [n EXCEPT !.vx = IF IsSet(n.fx) THEN 0 ELSE k[1],
              !.x  = IF IsSet(n.fx) THEN n.fx[1] ELSE n.x + k[1],
              !.vy = IF IsSet(n.fy) THEN 0 ELSE k[2],
              !.y  = IF IsSet(n.fy) THEN n.fy[1] ELSE n.y + k[2]]

\* The first link of the link force with an unresolved end.
FirstBroken(fl) ==
    CHOOSE i \in DOMAIN fl :
        /\ fl[i].s = "str" \/ fl[i].t = "str"
        /\ \A j \in 1..(i - 1) : fl[j].s # "str" /\ fl[j].t # "str"

\* The ids of the simulation's nodes that link j of the link force moves.
LiveEnds(fl, j) ==
    (IF fl[j].s = "obj" THEN {fl[j].source} ELSE {})
        \cup (IF fl[j].t = "obj" THEN {fl[j].target} ELSE {})

\* A tick while the link force is intact: alpha decays, every node moves,
\* the handler clamps every node, and the timer stops once alpha < alphaMin.
TickIntact ==
    /\ running
    /\ ~pending
    /\ ~Broken(forceLinks)
    /\ \E a \in AlphaAfterTick(alpha, alphaTarget) :
          /\ alpha' = a
          /\ running' = (a # 0)
    /\ \E k \in Kicks :
          nodes' = [i \in DOMAIN nodes |-> Clamp(MoveNode(nodes[i], k), width, height)]
    /\ last' = Other
    /\ UNCHANGED <<phase, apiData, pending, client, width, height, links,
                   forceLinks, forceLen, alphaTarget, drag>>
    /\ UNCHANGED nodePositions
    /\ UNCHANGED <<chat, poll>>

\* A tick while the link force holds an unresolved end: alpha decays, the
\* link force changes the velocities of the ends of the links before the
\* unresolved one (to a value that is not a number where its arrays are too
\* short) and throws; no node moves, no handler runs, the timer goes on.
TickBroken ==
    /\ running
    /\ ~pending
    /\ Broken(forceLinks)
    /\ \E a \in AlphaAfterTick(alpha, alphaTarget) : alpha' = a
    /\ LET j0 == FirstBroken(forceLinks)
           finite == UNION {LiveEnds(forceLinks, j) : j \in 1..(j0 - 1) \cap 1..forceLen}
           nan == UNION {LiveEnds(forceLinks, j) : j \in (1..(j0 - 1)) \ (1..forceLen)}
       IN  \E k \in Kicks :
              nodes' = [i \in DOMAIN nodes |->
                          IF nodes[i].id \in nan \/ nodes[i].vNaN
                          THEN [nodes[i] EXCEPT !.vNaN = nodes[i].id \in nan \/ @]
                          ELSE IF nodes[i].id \in finite
                               THEN [nodes[i] EXCEPT !.vx = k[1], !.vy = k[2]]
                               ELSE nodes[i]]
    /\ last' = Other
    /\ UNCHANGED <<phase, apiData, pending, client, width, height, links,
                   forceLinks, forceLen, alphaTarget, running, drag>>
    /\ UNCHANGED nodePositions
    /\ UNCHANGED <<chat, poll>>

(***************************************************************************)
(* drag(simulation) (NetworkGraph.vue 330-356).                            *)
(***************************************************************************)
SetPinNever(ns, id, fx, fy) == ns

\* d.fx = ..., d.fy = ... on the node object of the gesture.
SetPin(ns, id, fx, fy) ==
    [i \in DOMAIN ns |->
        IF ns[i].id = id THEN [ns[i] EXCEPT !.fx = fx, !.fy = fy] ELSE ns[i]]

DragRefusedNever(type) == FALSE

\* if (d.type === "self") return, in each handler, and the filter
\* d.type !== "self" of the gesture: a self node takes no drag event.
DragRefused(type) == type = "self"

\* The filter lets a gesture start on a node that is not self; dragstarted
\* raises alphaTarget, restarts the timer and pins the node where it is.
DragStart(id) ==
    /\ phase = "mounted"
    /\ ~pending
    /\ ~drag.active
    /\ id \in NodeIds(nodes)
    /\ IF DragRefused(NodeOf(nodes, id).type)
       THEN UNCHANGED <<drag, alphaTarget, running, nodes, last>>
       ELSE /\ drag' = [active |-> TRUE, id |-> id, attached |-> TRUE, type |-> "peer"]
            /\ alphaTarget' = 300
            /\ running' = TRUE
            /\ nodes' = SetPin(nodes, id, Some(NodeOf(nodes, id).x),
                               Some(NodeOf(nodes, id).y))
            /\ last' = Other
    /\ UNCHANGED <<phase, apiData, pending, client, width, height, links,
                   forceLinks, forceLen, alpha>>
    /\ UNCHANGED nodePositions
    /\ UNCHANGED <<chat, poll>>

\* The type of the dragged node object now.
DragType == IF drag.attached THEN NodeOf(nodes, drag.id).type ELSE drag.type

\* dragged: the pin follows the pointer, unless the node is self by now.
DragMove(p) ==
    /\ phase = "mounted"
    /\ ~pending
    /\ drag.active
    /\ nodes' = IF drag.attached /\ ~DragRefused(DragType)
                THEN SetPin(nodes, drag.id, Some(p[1]), Some(p[2]))
                ELSE nodes
    /\ last' = Other
    /\ UNCHANGED <<phase, apiData, pending, client, width, height, links,
                   forceLinks, forceLen, alpha, alphaTarget, running, drag>>
    /\ UNCHANGED nodePositions
    /\ UNCHANGED <<chat, poll>>

\* dragended: alphaTarget back to 0 and the pin removed, unless the node is
\* self by now.
DragEnd ==
    /\ phase = "mounted"
    /\ ~pending
    /\ drag.active
    /\ drag' = NoDrag
    /\ alphaTarget' = IF ~DragRefused(DragType) THEN 0 ELSE alphaTarget
    /\ nodes' = IF drag.attached /\ ~DragRefused(DragType)
                THEN SetPin(nodes, drag.id, None, None)
                ELSE nodes
    /\ last' = Other
    /\ UNCHANGED <<phase, apiData, pending, client, width, height, links,
                   forceLinks, forceLen, alpha, running>>
    /\ UNCHANGED nodePositions
    /\ UNCHANGED <<chat, poll>>

(***************************************************************************)
(* Specifications.                                                         *)
(***************************************************************************)
\* The component is set up under v-if="apiData": data is there at mount.
Init ==
    /\ phase = "init"
    /\ apiData \in {Some(d) : d \in Snapshots}
    /\ pending = FALSE
    /\ client \in Sizes
    /\ width = 800
    /\ height = 600
    /\ nodes = <<>>
    /\ links = <<>>
    /\ forceLinks = <<>>
    /\ forceLen = 0
    /\ alpha = 0
    /\ alphaTarget = 0
    /\ running = FALSE
    /\ drag = NoDrag
    /\ last = Other
    /\ nodePositions = <<>>
    /\ chat = ChatIdle /\ poll = PollIdle

Next ==
    \/ OnMounted
    \/ \E d \in Snapshots : Deliver(d)
    \/ \E d \in LateSnapshots : DeliverLate(d)
    \/ \E size \in Sizes : Resize(size)
    \/ TickIntact
    \/ TickBroken
    \/ \E id \in PeerIds : DragStart(id)
    \/ \E p \in Pointers : DragMove(p)
    \/ DragEnd
    \/ OnUnmounted

Spec == Init /\ [][Next]_vars

(***************************************************************************)
(* SpecLinks: the graph is mounted on a snapshot of self, B and C without  *)
(* connections; the data service delivers one snapshot of a larger set,    *)
(* and the watcher runs updateGraph on it.                                 *)
(***************************************************************************)
\* The ends <<source, target>> of the enumerated connection records; the
\* third is a self-loop.
Ends == {<<"self", "B">>, <<"B", "self">>, <<"self", "self">>,
         <<"self", "C">>, <<"C", "B">>, <<"B", "C">>}

\* Their metrics; the last has no instantaneous latency, only a history.
Metrics == {[bandwidth_mbps |-> 20, latency_ms |-> 10],
            [bandwidth_mbps |-> 30, latency_ms |-> 20],
            [bandwidth_mbps |-> 5, latency_ms |-> 0, latency_history |-> <<40, 15>>]}

RecordTypes == [ends : Ends, id : ConnIds, metrics : Metrics]

ConnOf(rec) == [peer_id |-> rec.ends[2], id |-> rec.id] @@ rec.metrics

\* The snapshot of self, B and C in which each peer reports the records of
\* recs that start at it, in the order of recs.
SnapshotOf(recs) ==
    LET ConnsOf(id) ==
            LET mine == SelectSeq(recs, LAMBDA r : r.ends[1] = id)
            IN  [i \in 1..Len(mine) |-> ConnOf(mine[i])]
    IN  Snapshot("self", <<Peer("self", ConnsOf("self")), Peer("B", ConnsOf("B")),
                           Peer("C", ConnsOf("C"))>>)

\* The end-to-end scenario: self <-> B reported from both sides under id "x"
\* (bandwidth 1.0 each), self -> C without an id (bandwidth 0.5).
Scenario ==
    Snapshot("self",
        <<Peer("self", <<[peer_id |-> "B", id |-> "x", bandwidth_mbps |-> 10],
                         [peer_id |-> "C", id |-> "", bandwidth_mbps |-> 5]>>),
          Peer("B", <<[peer_id |-> "self", id |-> "x", bandwidth_mbps |-> 10]>>),
          Peer("C", <<>>)>>)

\* Three reports between self and B: one id reported from both sides and a
\* record without an id.
Parallel ==
    Snapshot("self",
        <<Peer("self", <<Conn("B", "x", 20, 10), Conn("B", "", 30, 20)>>),
          Peer("B", <<Conn("self", "x", 30, 20)>>),
          Peer("C", <<>>)>>)

LinkSnapshots ==
    {SnapshotOf(recs) : recs \in UNION {[1..n -> RecordTypes] : n \in 0..MaxConns}}
        \cup {Scenario, Parallel}

\* The snapshot the mounted graph of SpecLinks was built from.
BaseSnapshot ==
    Snapshot("self", <<Peer("self", <<>>), Peer("B", <<>>), Peer("C", <<>>)>>)

\* The state onMounted leaves for BaseSnapshot in a 400 x 300 container when
\* every draw of (Math.random() - 0.5) * 50 is <<-25, 24>>.
InitLinks ==
    LET Free(id) == [id |-> id, type |-> "peer", x |-> 175, y |-> 174,
                     vx |-> 0, vy |-> 0, vNaN |-> FALSE, fx |-> None, fy |-> None]
    IN  /\ phase = "mounted"
        /\ apiData = Some(BaseSnapshot)
        /\ pending = FALSE
        /\ client = <<400, 300>>
        /\ width = 400
        /\ height = 300
        /\ nodes = <<[id |-> "self", type |-> "self", x |-> 200, y |-> 150,
                      vx |-> 0, vy |-> 0, vNaN |-> FALSE,
                      fx |-> Some(200), fy |-> Some(150)],
                     Free("B"), Free("C")>>
        /\ links = <<>>
        /\ forceLinks = <<>>
        /\ forceLen = 0
        /\ alpha = 1000
        /\ alphaTarget = 0
        /\ running = TRUE
        /\ drag = NoDrag
        /\ last = Other
        /\ nodePositions = <<>>
        /\ chat = ChatIdle /\ poll = PollIdle

\* dataService.ts fetchData: apiData.value = data queues the watcher job.
\* SpecLinks follows the first delivery after the mount.
Fetch ==
    /\ phase = "mounted"
    /\ ~pending
    /\ apiData = Some(BaseSnapshot)
    /\ \E d \in LinkSnapshots : apiData' = Some(d)
    /\ pending' = TRUE
    /\ last' = Other
    /\ UNCHANGED <<phase, client, width, height, nodes, links, forceLinks,
                   forceLen, alpha, alphaTarget, running, drag>>
    /\ UNCHANGED nodePositions
    /\ UNCHANGED <<chat, poll>>

NextLinks ==
    \/ Fetch
    \/ FlushWatcher

SpecLinks == InitLinks /\ [][NextLinks]_vars

(***************************************************************************)
(* Properties of link construction, checked under SpecLinks.  They read    *)
(* the snapshot in apiData and the links bound by the updateGraph call     *)
(* that processed it.                                                      *)
(***************************************************************************)
\* The watcher has run: links is the output of updateGraph(apiData).
Processed == last.op = "update" /\ ~pending

\* The connection records of a snapshot, as <<peer index, connection index>>.
Records(data) ==
    UNION {{<<p, i>> : i \in DOMAIN data.peers[p].connections} : p \in DOMAIN data.peers}

RecordConn(data, r) == data.peers[r[1]].connections[r[2]]

IsSelfLoopRecord(data, r) == RecordConn(data, r).peer_id = data.peers[r[1]].id

\* The non-self-loop records that carry the connection id K.
Members(data, K) ==
    {r \in Records(data) : RecordConn(data, r).id = K /\ ~IsSelfLoopRecord(data, r)}

RECURSIVE SumOver(_, _)
SumOver(S, f) ==
    IF S = {} THEN 0
    ELSE LET e == CHOOSE x \in S : TRUE IN f[e] + SumOver(S \ {e}, f)

\* The positions in links of the logical edges produced for the id K.
EdgesFor(K) ==
    {e \in DOMAIN links : links[e].id \in {"merged-" \o K, "conn-" \o K}}

\* C1: for every non-empty connection id K carried by two or more
\* non-self-loop records of the snapshot, updateGraph produces exactly one
\* logical edge for K; its bandwidth is the sum of the members' bandwidths,
\* its latency is the arithmetic mean of the members' latencies, and it is
\* bidirectional.
MergedEdgePerSharedId ==
    Processed =>
        \A K \in ConnIds \ {""} :
            LET data == apiData[1]
                ms   == Members(data, K)
                Bw   == [r \in ms |-> RecordConn(data, r).bandwidth_mbps]
                Lat  == [r \in ms |-> Latency(RecordConn(data, r))]
            IN  Cardinality(ms) >= 2 =>
                    /\ Cardinality(EdgesFor(K)) = 1
                    /\ \A e \in EdgesFor(K) :
                          /\ links[e].bandwidth = SumOver(ms, Bw)
                          /\ links[e].latency.num * Cardinality(ms)
                                = SumOver(ms, Lat) * links[e].latency.den
                          /\ links[e].isBidirectional

\* A->B 20/10 and B->A 30/20 under one id were processed, and the output has
\* an edge of bandwidth 50 and latency 15.
MergedEdgeWitness ==
    /\ Processed
    /\ \E K \in ConnIds \ {""} :
          /\ Cardinality(Members(apiData[1], K)) = 2
          /\ \E r1, r2 \in Members(apiData[1], K) :
                /\ r1[1] # r2[1]
                /\ RecordConn(apiData[1], r1).bandwidth_mbps = 20
                /\ RecordConn(apiData[1], r2).bandwidth_mbps = 30
          /\ \E e \in DOMAIN links :
                /\ links[e].id = "merged-" \o K
                /\ links[e].bandwidth = 50
                /\ links[e].latency = [num |-> 15, den |-> 1]

\* C2: no logical edge in the output of updateGraph has its source id equal
\* to its target id; a record whose peer_id is the id of the peer reporting
\* it contributes to no edge (the edges are exactly those of the snapshot
\* without such records).
NoSelfLoopEdge ==
    Processed =>
        /\ \A e \in DOMAIN links : links[e].source # links[e].target
        /\ \A K \in ConnIds \ {""} :
              Members(apiData[1], K) = {} => EdgesFor(K) = {}

\* A snapshot with a self-loop record and another record was processed.
SelfLoopDroppedWitness ==
    /\ Processed
    /\ \E r \in Records(apiData[1]) :
          /\ IsSelfLoopRecord(apiData[1], r)
          /\ RecordConn(apiData[1], r).id # ""
    /\ Len(links) = 1

\* The unordered node pairs that have a logical edge, as canonical keys.
PairKeys == {PairKey(links[e].source, links[e].target) : e \in DOMAIN links}

\* The positions in links of the logical edges between the pair key.
EdgesOfPair(key) ==
    {e \in DOMAIN links : PairKey(links[e].source, links[e].target) = key}

\* The offsets off[e], e in es, are symmetric about zero as a multiset and
\* pairwise distinct.
SymmetricDistinct(es, off) ==
    /\ \A e1, e2 \in es : e1 # e2 => off[e1] # off[e2]
    /\ \A e \in es :
          Cardinality({o \in es : off[o] = off[e]})
              = Cardinality({o \in es : off[o] = -off[e]})

\* The offset of edge e measured in the canonical direction id1 -> id2 of
\* its pair: the stored value for an edge stored id1 -> id2, its negation
\* for an edge stored id2 -> id1.
CanonicalOffset(e) ==
    IF links[e].source = PairKey(links[e].source, links[e].target)[1]
    THEN links[e].curvatureOffset
    ELSE -links[e].curvatureOffset

\* C3 as stated: after offset assignment, for every unordered node pair the
\* stored curvatureOffset values of its n edges are symmetric about zero
\* and pairwise distinct, also when the group mixes both directions.
StoredOffsetsSymmetricDistinct ==
    Processed =>
        \A key \in PairKeys :
            SymmetricDistinct(EdgesOfPair(key),
                              [e \in DOMAIN links |-> links[e].curvatureOffset])

\* C3, amended: for every unordered node pair the offsets of its n edges,
\* each measured in the pair's canonical direction, are symmetric about
\* zero and pairwise distinct.
CanonicalOffsetsSymmetricDistinct ==
    Processed =>
        \A key \in PairKeys :
            SymmetricDistinct(EdgesOfPair(key),
                              [e \in DOMAIN links |-> CanonicalOffset(e)])

\* A pair with two edges stored in opposite directions was processed.
MixedDirectionWitness ==
    /\ Processed
    /\ \E key \in PairKeys :
          /\ Cardinality(EdgesOfPair(key)) >= 2
          /\ \E e1, e2 \in EdgesOfPair(key) : links[e1].source = links[e2].target

\* C8: for the snapshot with peers self, B, C, own id "self", and the
\* connections self->B (1.0, id "x"), B->self (1.0, id "x"), self->C (0.5,
\* no id), updateGraph leaves exactly 3 nodes and exactly 2 logical edges:
\* a bidirectional self-B edge of bandwidth 2.0 and a standalone self->C
\* edge of bandwidth 0.5, both with curvatureOffset 0.
ScenarioOutput ==
    (Processed /\ apiData[1] = Scenario) =>
        /\ Len(nodes) = 3
        /\ NodeIds(nodes) = {"self", "B", "C"}
        /\ Len(links) = 2
        /\ \E e \in DOMAIN links :
              /\ PairKey(links[e].source, links[e].target) = <<"B", "self">>
              /\ links[e].isBidirectional
              /\ links[e].bandwidth = 20
              /\ links[e].curvatureOffset = 0
        /\ \E e \in DOMAIN links :
              /\ links[e].source = "self"
              /\ links[e].target = "C"
              /\ ~links[e].isBidirectional
              /\ links[e].bandwidth = 5
              /\ links[e].curvatureOffset = 0

\* The scenario snapshot was processed.
ScenarioWitness ==
    /\ Processed
    /\ apiData[1] = Scenario
    /\ Len(links) = 2

(***************************************************************************)
(* Properties of one updateGraph call, checked under Spec.  A step with    *)
(* last' = CallOf(..) is an updateGraph call on the snapshot apiData'; the *)
(* unprimed variables are what the engine held when the call began.        *)
(***************************************************************************)
\* The step is an updateGraph call on a snapshot.
IsCall == last'.op = "update"

\* The call's snapshot has the node-id set the simulation holds.
SameIdSet == PeerIdsOf(apiData'[1]) = NodeIds(nodes)

Pinned(n) == IsSet(n.fx) \/ IsSet(n.fy)

SamePosition(n, m) == n.x = m.x /\ n.y = m.y

\* Equal velocities; a velocity that is not a number equals none.
SameVelocity(n, m) == ~n.vNaN /\ ~m.vNaN /\ n.vx = m.vx /\ n.vy = m.vy

\* C4 as stated: when the snapshot's node-id set equals the one held, every
\* node's position (x, y) immediately after updateGraph equals its position
\* immediately before.
PositionsKeptOnSameIdSet ==
    [][(IsCall /\ SameIdSet) =>
          \A i \in DOMAIN nodes :
              SamePosition(NodeOf(nodes', nodes[i].id), nodes[i])]_vars

\* C4, amended: when the snapshot's node-id set equals the one held, every
\* node that carries no pin after the call has the position it had before.
FreePositionsKeptOnSameIdSet ==
    [][(IsCall /\ SameIdSet) =>
          \A i \in DOMAIN nodes :
              ~Pinned(NodeOf(nodes', nodes[i].id)) =>
                  SamePosition(NodeOf(nodes', nodes[i].id), nodes[i])]_vars

\* An updateGraph call on a snapshot with the held id set has run, and the
\* simulation holds a node without a pin that ticks have moved to the edge
\* of the viewport.
SameIdSetUpdateWitness ==
    /\ last.op = "update"
    /\ last.ids = NodeIds(nodes)
    /\ \E i \in DOMAIN nodes :
          /\ ~Pinned(nodes[i])
          /\ nodes[i].x = width - Radius(nodes[i]) - 20

\* C5: when updateGraph processes a snapshot whose node-id set differs in
\* membership from the set the simulation holds, alpha is 1 after the call.
ReheatOnMembershipChange ==
    [][(IsCall /\ ~SameIdSet) => alpha' = 1000]_vars

\* The same for the calls that reach their end: it is the exception of the
\* link force that keeps alpha where it was.
ReheatOnMembershipChangeUnlessThrown ==
    [][(IsCall /\ ~SameIdSet /\ ~last'.thrown) => alpha' = 1000]_vars

InBounds(n, w, h) ==
    /\ Radius(n) + 20 <= n.x /\ n.x <= w - Radius(n) - 20
    /\ Radius(n) + 20 <= n.y /\ n.y <= h - Radius(n) - 20

AllFreeInBounds(ns, w, h) ==
    \A i \in DOMAIN ns : ~Pinned(ns[i]) => InBounds(ns[i], w, h)

\* C7: after every simulation tick, whatever snapshots and resizes came
\* before it, every node without a pin has x in [r+20, width-r-20] and y in
\* [r+20, height-r-20] for the current width and height.
FreeNodesInBoundsAfterTick ==
    [][(TickIntact \/ TickBroken) => AllFreeInBounds(nodes', width, height)]_vars

\* The same for the ticks of an intact link force, which run the handler.
FreeNodesInBoundsAfterIntactTick ==
    [][TickIntact => AllFreeInBounds(nodes', width, height)]_vars

\* C9 as stated: every node whose id the simulation held before the call
\* keeps its position and velocity, except the self node, which is at the
\* anchor (width/2, height/2).
KnownNodesCarriedExceptSelf ==
    [][IsCall =>
          \A i \in DOMAIN nodes :
              nodes[i].id \in NodeIds(nodes') =>
                  LET n == NodeOf(nodes', nodes[i].id)
                  IN  IF n.type = "self"
                      THEN n.x = width' \div 2 /\ n.y = height' \div 2
                      ELSE SamePosition(n, nodes[i]) /\ SameVelocity(n, nodes[i])]_vars

\* C9, amended: every node whose id the simulation held before the call
\* keeps its velocity, or has velocity zero if its velocity was not a
\* number; it keeps its position if it carries no pin after the call, and
\* is at its pin otherwise; the self node's pin is the anchor.
KnownNodesCarriedExceptPinned ==
    [][IsCall =>
          \A i \in DOMAIN nodes :
              nodes[i].id \in NodeIds(nodes') =>
                  LET n == NodeOf(nodes', nodes[i].id)
                  IN  /\ IF nodes[i].vNaN
                         THEN ~n.vNaN /\ n.vx = 0 /\ n.vy = 0
                         ELSE SameVelocity(n, nodes[i])
                      /\ IF Pinned(n)
                         THEN n.x = n.fx[1] /\ n.y = n.fy[1]
                         ELSE SamePosition(n, nodes[i])
                      /\ n.type = "self" =>
                            n.x = width' \div 2 /\ n.y = height' \div 2]_vars

\* An updateGraph call has changed the membership and kept a node that
\* carries no pin and that ticks have moved to the edge of the viewport.
KeptAcrossMembershipChangeWitness ==
    /\ last.op = "update"
    /\ last.ids # NodeIds(nodes)
    /\ \E i \in DOMAIN nodes :
          /\ nodes[i].id \in last.ids
          /\ ~Pinned(nodes[i])
          /\ nodes[i].x = width - Radius(nodes[i]) - 20
          /\ nodes[i].vx = 500

\* The positions in nodes of the nodes of type self.
SelfNodes == {i \in DOMAIN nodes : nodes[i].type = "self"}

\* The snapshot's peer list contains the snapshot's own peer id exactly once.
OwnIdOnce(data) ==
    Cardinality({i \in DOMAIN data.peers : data.peers[i].id = data.peer_id}) = 1

\* C10: right after updateGraph has processed a snapshot whose peer list
\* contains the snapshot's own peer id exactly once, exactly one node has
\* type self, it is the node of that id, and it is pinned (fx, fy) at
\* (width/2, height/2) for the width and height of that call.
OneSelfPinnedAtAnchor ==
    (last.op = "update" /\ OwnIdOnce(apiData[1])) =>
        /\ Cardinality(SelfNodes) = 1
        /\ \A i \in SelfNodes :
              /\ nodes[i].id = apiData[1].peer_id
              /\ nodes[i].fx = Some(width \div 2)
              /\ nodes[i].fy = Some(height \div 2)

\* updateGraph has processed a snapshot that names as own id a peer the
\* simulation held as an ordinary peer, after the viewport had shrunk.
SelfChangedWitness ==
    /\ last.op = "update"
    /\ "B" \in last.ids
    /\ apiData[1].peer_id = "B"
    /\ width = 200
    /\ client = <<200, 160>>
    /\ \E i \in SelfNodes : nodes[i].id = "B" /\ nodes[i].fx = Some(100)
    /\ \E i \in DOMAIN nodes : nodes[i].id = "self" /\ nodes[i].fx = Some(200)

(***************************************************************************)
(* Properties of the resize and drag handlers, checked under Spec.         *)
(***************************************************************************)
\* The step is a run of the ResizeObserver callback.
IsResize == \E size \in Sizes : Resize(size)

\* C11: immediately after the resize handler has run, the pin of the self
\* node is (new width / 2, new height / 2), and alpha is at 0.3.
SelfPinFollowsResize ==
    [][IsResize =>
          /\ alpha' = 300
          /\ \A i \in DOMAIN nodes' :
                nodes'[i].type = "self" =>
                    /\ nodes'[i].fx = Some(width' \div 2)
                    /\ nodes'[i].fy = Some(height' \div 2)]_vars

\* What the handler does instead: the node list, pins included, is left as
\* it is, and alpha is set to 0.3.
ResizeLeavesNodes ==
    [][IsResize => nodes' = nodes /\ alpha' = 300]_vars

\* The gesture in progress is on a node object the simulation holds, and
\* that node is a peer.
DragOnPeer == drag.active /\ drag.attached /\ DragType = "peer"

IsTick == TickIntact \/ TickBroken

\* The ends of a list of links, in order.
EndsOf(ls) == [i \in DOMAIN ls |-> <<ls[i].source, ls[i].target>>]

\* The node list and the link force's edge list are those of the snapshot
\* in apiData.
FromCurrentSnapshot ==
    /\ IsSet(apiData)
    /\ [i \in DOMAIN nodes |-> nodes[i].id]
          = [i \in 1..Len(apiData[1].peers) |-> apiData[1].peers[i].id]
    /\ EndsOf(forceLinks) = EndsOf(NewLinks(apiData[1]))

\* C13: every tick observes a node list and an edge list that come from the
\* same snapshot, the latest one, whatever the interleaving of snapshot
\* arrivals and ticks (no tick runs inside updateGraph: a call is one step).
TicksSeeOneSnapshot == [][IsTick => FromCurrentSnapshot]_vars

\* What holds instead: a tick that finds the link force intact observes one
\* snapshot.
IntactTicksSeeOneSnapshot == [][TickIntact => FromCurrentSnapshot]_vars

\* Some connection of the snapshot names a peer_id that is no peer of it.
Dangling(data) ==
    \E i \in 1..Len(data.peers) :
        \E c \in 1..Len(data.peers[i].connections) :
            data.peers[i].connections[c].peer_id \notin PeerIdsOf(data)

\* C14: an updateGraph call on a snapshot with a dangling peer_id emits an
\* edge for that connection and completes without an exception, with the
\* node list and the link force's edge list those of the new snapshot and
\* every edge resolved.
DanglingUpdateCompletes ==
    [][(IsCall /\ Dangling(apiData'[1])) =>
          /\ \E e \in DOMAIN links' : links'[e].target \notin NodeIds(nodes')
          /\ ~last'.thrown
          /\ FromCurrentSnapshot'
          /\ ~Broken(forceLinks')]_vars

\* What the call does: the edge is emitted, and the call ends in the
\* exception "node not found", leaving the link force with an unresolved end.
DanglingUpdateThrows ==
    [][(IsCall /\ Dangling(apiData'[1])) =>
          /\ \E e \in DOMAIN links' : links'[e].target \notin NodeIds(nodes')
          /\ last'.thrown
          /\ Broken(forceLinks')]_vars

(***************************************************************************)
(* SpecPorts: link construction in the version of the component that reads *)
(* conn.ports (part_004, 337-442).  The graph is mounted as in SpecLinks;  *)
(* the data service delivers one snapshot of self and B whose connections  *)
(* carry port mappings, and link construction runs on it.  The model keeps *)
(* the fields source, target, id, ports and isBidirectional of a link.     *)
(***************************************************************************)
\* conn.ports.map(p => ({protocol: p.protocol, srcPort: p.src, dstPort: p.dst}))
\* if (conn.ports && conn.ports.length > 0), otherwise ports: [].
PortsOf(conn) ==
    IF "ports" \in DOMAIN conn /\ Len(conn.ports) > 0
    THEN [i \in 1..Len(conn.ports) |->
            [protocol |-> conn.ports[i].protocol,
             srcPort |-> conn.ports[i].src, dstPort |-> conn.ports[i].dst]]
    ELSE <<>>

\* The linkData object of one connection record.
PortLinkData(peer, conn, index) ==
    [source |-> peer.id, target |-> conn.peer_id, ports |-> PortsOf(conn),
     id |-> conn.id, originalIndex |-> index]

\* The linkData of one peer's connections, self-loops skipped.
PortPeerLinkData(peer) ==
    LET idx == SelectSeq([i \in 1..Len(peer.connections) |-> i],
                   LAMBDA i : ~SkipSelfLoop(peer.id, peer.connections[i].peer_id))
    IN  [k \in 1..Len(idx) |-> PortLinkData(peer, peer.connections[idx[k]], idx[k] - 1)]

\* One entry of connectionMap.forEach: ports: baseLink.ports || [] for a
\* merged link, ...links[0] for a single one.
PortLogicalOfGroup(ls, connId) ==
    IF Len(ls) > 1
    THEN [id |-> "merged-" \o connId, source |-> ls[1].source,
          target |-> ls[1].target, isBidirectional |-> TRUE,
          ports |-> ls[1].ports]
    ELSE [id |-> "conn-" \o connId, source |-> ls[1].source,
          target |-> ls[1].target, isBidirectional |-> FALSE,
          ports |-> ls[1].ports]

\* A record without an id.
PortLogicalOfStandalone(l) ==
    [id |-> l.source \o "-" \o l.target \o "-" \o ToString(l.originalIndex),
     source |-> l.source, target |-> l.target, isBidirectional |-> FALSE,
     ports |-> l.ports]

\* logicalLinks of part_004.
PortLogicalLinks(data) ==
    LET all  == Concat([p \in 1..Len(data.peers) |-> PortPeerLinkData(data.peers[p])])
        keys == Distinct(SelectSeq([i \in 1..Len(all) |-> all[i].id],
                                   LAMBDA k : k # ""))
        sl   == StandaloneLinks(all)
    IN  [k \in 1..Len(keys) |-> PortLogicalOfGroup(ConnGroup(all, keys[k]), keys[k])]
        \o [k \in 1..Len(sl) |-> PortLogicalOfStandalone(sl[k])]

\* The port mappings a connection may report, and the lists of them: none
\* (the field is absent), one, or two, repetitions included.
PortMappings == {[protocol |-> "tcp", src |-> 7001, dst |-> 7002],
                 [protocol |-> "udp", src |-> 7003, dst |-> 7004]}

MaxPorts == 2

PortLists == UNION {[1..n -> PortMappings] : n \in 0..MaxPorts}

PortConn(target, connId, ps) ==
    IF ps = <<>> THEN [peer_id |-> target, id |-> connId]
    ELSE [peer_id |-> target, id |-> connId, ports |-> ps]

\* self reports its connection to B under id "x"; B reports its connection
\* to self under the same id or under another.
PortSnapshots ==
    {Snapshot("self", <<Peer("self", <<PortConn("B", "x", p1)>>),
                        Peer("B", <<PortConn("self", k, p2)>>)>>) :
        p1 \in PortLists, p2 \in PortLists, k \in {"x", "y"}}

PortBaseSnapshot == Snapshot("self", <<Peer("self", <<>>), Peer("B", <<>>)>>)

\* The state onMounted leaves for PortBaseSnapshot in a 400 x 300 container.
InitPorts ==
    /\ phase = "mounted"
    /\ apiData = Some(PortBaseSnapshot)
    /\ pending = FALSE
    /\ client = <<400, 300>>
    /\ width = 400
    /\ height = 300
    /\ nodes = <<[id |-> "self", type |-> "self", x |-> 200, y |-> 150,
                  vx |-> 0, vy |-> 0, vNaN |-> FALSE,
                  fx |-> Some(200), fy |-> Some(150)],
                 [id |-> "B", type |-> "peer", x |-> 175, y |-> 174,
                  vx |-> 0, vy |-> 0, vNaN |-> FALSE, fx |-> None, fy |-> None]>>
    /\ links = <<>>
    /\ forceLinks = <<>>
    /\ forceLen = 0
    /\ alpha = 1000
    /\ alphaTarget = 0
    /\ running = TRUE
    /\ drag = NoDrag
    /\ last = Other
    /\ nodePositions = <<>>
    /\ chat = ChatIdle /\ poll = PollIdle

\* fetchData: apiData.value = data queues the watcher job.
FetchPorts ==
    /\ phase = "mounted"
    /\ ~pending
    /\ apiData = Some(PortBaseSnapshot)
    /\ \E d \in PortSnapshots : apiData' = Some(d)
    /\ pending' = TRUE
    /\ last' = Other
    /\ UNCHANGED <<phase, client, width, height, nodes, links, forceLinks,
                   forceLen, alpha, alphaTarget, running, drag>>
    /\ UNCHANGED nodePositions
    /\ UNCHANGED <<chat, poll>>

\* The watcher job: updateGraph up to the end of link construction.
BuildPortLinks ==
    /\ pending
    /\ pending' = FALSE
    /\ links' = PortLogicalLinks(apiData[1])
    /\ last' = [op |-> "ports", ids |-> NodeIds(nodes), thrown |-> FALSE]
    /\ UNCHANGED <<phase, apiData, client, width, height, nodes, forceLinks,
                   forceLen, alpha, alphaTarget, running, drag>>
    /\ UNCHANGED nodePositions
    /\ UNCHANGED <<chat, poll>>

NextPorts ==
    \/ FetchPorts
    \/ BuildPortLinks

SpecPorts == InitPorts /\ [][NextPorts]_vars

\* The port descriptors a record of the snapshot carries, as a set.
PortSetOf(conn) == Range(PortsOf(conn))

\* The first member of K in the order the records are visited.
FirstMember(data, K) ==
    CHOOSE r \in Members(data, K) :
        \A q \in Members(data, K) :
            r[1] < q[1] \/ (r[1] = q[1] /\ r[2] <= q[2])

\* C15: when the records of a merged edge carry explicit port entries on
\* any side, the ports of the merged edge are the union of the distinct
\* {protocol, srcPort, dstPort} entries of all members, each once; when no
\* member carries any, they are those of the first member.
MergedPortsAreUnion ==
    (last.op = "ports" /\ ~pending) =>
        \A K \in ConnIds \ {""} :
            Cardinality(Members(apiData[1], K)) >= 2 =>
                \E e \in DOMAIN links :
                    /\ links[e].id = "merged-" \o K
                    /\ LET data == apiData[1]
                           ms == Members(data, K)
                           all == UNION {PortSetOf(RecordConn(data, r)) : r \in ms}
                       IN  IF all # {}
                           THEN /\ Range(links[e].ports) = all
                                /\ Len(links[e].ports) = Cardinality(all)
                           ELSE links[e].ports
                                   = PortsOf(RecordConn(data, FirstMember(data, K)))

\* What link construction does: the ports of a merged edge are always those
\* of the first member, as that member lists them.
MergedPortsFromFirst ==
    (last.op = "ports" /\ ~pending) =>
        \A K \in ConnIds \ {""} :
            Cardinality(Members(apiData[1], K)) >= 2 =>
                \E e \in DOMAIN links :
                    /\ links[e].id = "merged-" \o K
                    /\ links[e].ports
                          = PortsOf(RecordConn(apiData[1], FirstMember(apiData[1], K)))

(***************************************************************************)
(* The number and the ids of the logical edges, checked under SpecLinks.   *)
(***************************************************************************)
\* The non-self-loop records of a snapshot.
EdgeRecords(data) == {r \in Records(data) : ~IsSelfLoopRecord(data, r)}

\* The non-empty connection ids the non-self-loop records carry.
CarriedIds(data) == {RecordConn(data, r).id : r \in EdgeRecords(data)} \ {""}

\* The edge id of the id-less record r: source, target and the 0-based
\* position of the record among its peer's connections.
StandaloneId(data, r) ==
    data.peers[r[1]].id \o "-" \o RecordConn(data, r).peer_id
        \o "-" \o ToString(r[2] - 1)

\* C16: updateGraph produces as many logical edges as there are distinct
\* non-empty connection ids among the non-self-loop records plus
\* non-self-loop records without an id; every id-less record yields exactly
\* one edge, with id "<source>-<target>-<index>"; an id carried by exactly
\* one record yields exactly one edge, which is not bidirectional.
EdgeCount ==
    Processed =>
        LET data == apiData[1]
            idless == Members(data, "")
        IN  /\ Len(links) = Cardinality(CarriedIds(data)) + Cardinality(idless)
            /\ \A r \in idless :
                  /\ Cardinality({e \in DOMAIN links :
                                     links[e].id = StandaloneId(data, r)}) = 1
                  /\ \A e \in DOMAIN links :
                        links[e].id = StandaloneId(data, r) =>
                            /\ links[e].source = data.peers[r[1]].id
                            /\ links[e].target = RecordConn(data, r).peer_id
            /\ \A K \in CarriedIds(data) :
                  Cardinality(Members(data, K)) = 1 =>
                      /\ Cardinality(EdgesFor(K)) = 1
                      /\ \A e \in EdgesFor(K) :
                            /\ links[e].id = "conn-" \o K
                            /\ ~links[e].isBidirectional

\* A snapshot with a record without an id and an id carried by exactly
\* one record has been processed.
EdgeCountWitness ==
    /\ Processed
    /\ Members(apiData[1], "") # {}
    /\ \E K \in CarriedIds(apiData[1]) : Cardinality(Members(apiData[1], K)) = 1
    /\ Len(links) = 2

(***************************************************************************)
(* The order of the edges of a pair, checked under SpecLinks.              *)
(***************************************************************************)
\* The edge ids updateGraph can form from the enumerated records, in
\* ascending order of JavaScript's string comparison: "B-..." < "C-..." <
\* "conn-..." < "merged-..." < "self-...", and within a source by target and
\* index.
AscendingEdgeIds ==
    LET Block(s) ==
            Concat([t \in 1..3 |->
                [i \in 1..(MaxConns + 1) |->
                    s \o "-" \o <<"B", "C", "self">>[t] \o "-" \o ToString(i - 1)]])
    IN  Block("B") \o Block("C")
            \o <<"conn-x", "conn-y", "merged-x", "merged-y">> \o Block("self")

EdgeIdRank(id) == CHOOSE i \in DOMAIN AscendingEdgeIds : AscendingEdgeIds[i] = id

\* C17: within each pair group of size n, the edge whose id is the i-th
\* smallest of the group (i = 0..n-1) has base offset (i - (n-1)/2) * 50,
\* whatever the order of peers and connections in the snapshot.
OffsetsFollowEdgeId ==
    Processed =>
        \A key \in PairKeys :
            \A e \in EdgesOfPair(key) :
                LET n == Cardinality(EdgesOfPair(key))
                    i == Cardinality({o \in EdgesOfPair(key) :
                            EdgeIdRank(links[o].id) < EdgeIdRank(links[e].id)})
                IN  CanonicalOffset(e) = (2 * i - (n - 1)) * 25

\* What updateGraph does: the pair groups are never sorted, and i is the
\* position of the edge in its group in the order of logicalLinks (the
\* connectionMap entries in insertion order, then the records without id).
OffsetsFollowInsertionOrder ==
    Processed =>
        \A key \in PairKeys :
            \A e \in EdgesOfPair(key) :
                LET n == Cardinality(EdgesOfPair(key))
                    i == Cardinality({o \in EdgesOfPair(key) : o < e})
                IN  CanonicalOffset(e) = (2 * i - (n - 1)) * 25

(***************************************************************************)
(* SpecCache: the node part of updateGraph in the version of the component *)
(* that saves and restores positions through nodePositions (part_003,      *)
(* 333-383, 738-757, 966-968).  The snapshots carry no connections.        *)
(***************************************************************************)
\* d3's initializeNodes places the i-th node (0-based) without coordinates
\* at radius 10 * sqrt(0.5 + i) and angle i * pi * (3 - sqrt(5)); in whole
\* pixels.
Phyllotaxis(i) == <<<<7, 0>>, <<-9, 8>>, <<1, -16>>>>[i + 1]

\* nodePositions.set(node.id, {x, y, vx: node.vx || 0, vy: node.vy || 0}) for
\* every node of simulation.nodes(); entries of other ids stay.
SavePositions(cache, ns) ==
    [id \in DOMAIN cache \cup NodeIds(ns) |->
        IF id \in NodeIds(ns)
        THEN LET n == NodeOf(ns, id)
             IN  [x |-> n.x, y |-> n.y,
                  vx |-> IF n.vNaN THEN 0 ELSE n.vx,
                  vy |-> IF n.vNaN THEN 0 ELSE n.vy]
        ELSE cache[id]]

\* newNodes after "Restore positions for existing nodes" and after
\* simulation.nodes(newNodes): the self node at its pin, a peer with a saved
\* position at that position, any other peer where d3 places it.
CacheNewNodes(data, cache, w, h) ==
    [i \in 1..Len(data.peers) |->
        LET id == data.peers[i].id
        IN  IF id = data.peer_id
            THEN [id |-> id, type |-> "self", x |-> w \div 2, y |-> h \div 2,
                  vx |-> 0, vy |-> 0, vNaN |-> FALSE,
                  fx |-> Some(w \div 2), fy |-> Some(h \div 2)]
            ELSE IF id \in DOMAIN cache
                 THEN [id |-> id, type |-> "peer",
                       x |-> cache[id].x, y |-> cache[id].y,
                       vx |-> cache[id].vx, vy |-> cache[id].vy, vNaN |-> FALSE,
                       fx |-> None, fy |-> None]
                 ELSE [id |-> id, type |-> "peer",
                       x |-> Phyllotaxis(i - 1)[1], y |-> Phyllotaxis(i - 1)[2],
                       vx |-> 0, vy |-> 0, vNaN |-> FALSE,
                       fx |-> None, fy |-> None]]

\* The peer lists the data service delivers under SpecCache.
CacheSnapshots ==
    {Snapshot("self", [i \in DOMAIN ids |-> Peer(ids[i], <<>>)]) :
        ids \in {<<"self">>, <<"self", "B">>, <<"self", "C">>,
                 <<"self", "B", "C">>, <<"self", "C", "B">>}}

\* The state onMounted leaves on the snapshot of self and B in a 400 x 300
\* container: nothing is saved yet.
InitCache ==
    /\ phase = "mounted"
    /\ apiData = Some(Snapshot("self", <<Peer("self", <<>>), Peer("B", <<>>)>>))
    /\ pending = FALSE
    /\ client = <<400, 300>>
    /\ width = 400
    /\ height = 300
    /\ nodes = <<[id |-> "self", type |-> "self", x |-> 200, y |-> 150,
                  vx |-> 0, vy |-> 0, vNaN |-> FALSE,
                  fx |-> Some(200), fy |-> Some(150)],
                 [id |-> "B", type |-> "peer", x |-> -9, y |-> 8,
                  vx |-> 0, vy |-> 0, vNaN |-> FALSE, fx |-> None, fy |-> None]>>
    /\ links = <<>>
    /\ forceLinks = <<>>
    /\ forceLen = 0
    /\ alpha = 1000
    /\ alphaTarget = 0
    /\ running = TRUE
    /\ drag = NoDrag
    /\ last = Other
    /\ nodePositions = <<>>
    /\ chat = ChatIdle /\ poll = PollIdle

\* fetchData: apiData.value = data queues the watcher job.
FetchCache ==
    /\ phase = "mounted"
    /\ ~pending
    /\ \E d \in CacheSnapshots : apiData' = Some(d)
    /\ pending' = TRUE
    /\ last' = Other
    /\ UNCHANGED <<phase, client, width, height, nodes, links, forceLinks,
                   forceLen, alpha, alphaTarget, running, drag, nodePositions>>
    /\ UNCHANGED <<chat, poll>>

\* The watcher job: updateGraph of part_003 on a snapshot without
\* connections.
UpdateCache ==
    /\ pending
    /\ pending' = FALSE
    /\ LET data == apiData[1]
           saved == SavePositions(nodePositions, nodes)
           changed == NodesChanged(nodes, data)
       IN  /\ nodePositions' = saved
           /\ nodes' = CacheNewNodes(data, saved, width, height)
           /\ alpha' = KeepWarm(IF changed THEN 1000 ELSE 100)
    /\ running' = TRUE
    /\ last' = [op |-> "cache", ids |-> NodeIds(nodes), thrown |-> FALSE]
    /\ UNCHANGED <<phase, apiData, client, width, height, links, forceLinks,
                   forceLen, alphaTarget, drag>>
    /\ UNCHANGED <<chat, poll>>

\* A tick: alpha decays, every node moves, the handler clamps every node,
\* and the timer stops once alpha < alphaMin.
TickCache ==
    /\ running
    /\ ~pending
    /\ \E a \in AlphaAfterTick(alpha, alphaTarget) :
          /\ alpha' = a
          /\ running' = (a # 0)
    /\ \E k \in Kicks :
          nodes' = [i \in DOMAIN nodes |-> Clamp(MoveNode(nodes[i], k), width, height)]
    /\ last' = Other
    /\ UNCHANGED <<phase, apiData, pending, client, width, height, links,
                   forceLinks, forceLen, alphaTarget, drag, nodePositions>>
    /\ UNCHANGED <<chat, poll>>

NextCache ==
    \/ FetchCache
    \/ UpdateCache
    \/ TickCache

SpecCache == InitCache /\ [][NextCache]_vars

\* The node with this id is where a node the engine has never seen is put.
PlacedAsNew(ns, id) ==
    \E i \in DOMAIN ns :
        /\ ns[i].id = id
        /\ <<ns[i].x, ns[i].y>> = Phyllotaxis(i - 1)
        /\ ns[i].vx = 0 /\ ns[i].vy = 0

\* C18: after updateGraph has processed a snapshot, position and velocity
\* are retained only for the ids of that snapshot: no saved position is
\* left for an absent id, and a peer the engine did not hold before the call
\* is placed as a brand-new node.
RetainsOnlySnapshotIds ==
    [][last'.op = "cache" =>
          /\ DOMAIN nodePositions' \subseteq PeerIdsOf(apiData'[1])
          /\ \A id \in PeerIdsOf(apiData'[1]) \ NodeIds(nodes) :
                PlacedAsNew(nodes', id)]_vars

\* What this version does: nothing is ever deleted from nodePositions, and
\* a peer with a saved position is put back there.
SavedPositionsAccumulate ==
    [][last'.op = "cache" =>
          /\ DOMAIN nodePositions' = DOMAIN nodePositions \cup NodeIds(nodes)
          /\ \A id \in (PeerIdsOf(apiData'[1]) \cap DOMAIN nodePositions)
                          \ (NodeIds(nodes) \cup {"self"}) :
                /\ NodeOf(nodes', id).x = nodePositions[id].x
                /\ NodeOf(nodes', id).y = nodePositions[id].y]_vars

\* In the component of src/src/components, which never reads or writes
\* nodePositions, a peer the simulation did not hold before the call is
\* created at the centre plus a random draw, whatever happened to its id
\* earlier; checked under Spec.
AbsentThenNewInComponent ==
    [][IsCall =>
          /\ nodePositions' = <<>>
          /\ [i \in DOMAIN nodes' |-> nodes'[i].id]
                = [i \in 1..Len(apiData'[1].peers) |-> apiData'[1].peers[i].id]
          /\ \A i \in DOMAIN nodes' :
                (nodes'[i].id \notin NodeIds(nodes) /\ nodes'[i].type = "peer") =>
                    <<nodes'[i].x - width' \div 2, nodes'[i].y - height' \div 2>>
                        \in Jitters]_vars

(***************************************************************************)
(* Teardown, checked under Spec.                                           *)
(***************************************************************************)
\* C19: once onUnmounted has run the simulation's timer is stopped, and it
\* stays stopped: no tick, no updateGraph call and no resize callback runs
\* afterwards, and the node list, the edge lists and alpha are left as they
\* were, also when the data service delivers a later snapshot.
StoppedAfterUnmount ==
    [][/\ phase' = "unmounted" => ~running'
       /\ phase = "unmounted" =>
             /\ ~IsTick /\ ~IsCall /\ ~IsResize
             /\ UNCHANGED <<nodes, links, forceLinks, forceLen, alpha,
                            alphaTarget, running, width, height>>]_vars

\* A snapshot has been delivered after the teardown: apiData lists other
\* peers than the node list, which a mounted graph never shows.
LateSnapshotWitness ==
    /\ phase = "unmounted"
    /\ ~running
    /\ IsSet(apiData)
    /\ PeerIdsOf(apiData[1]) # NodeIds(nodes)

(***************************************************************************)
(* Cooling, checked under Spec.                                            *)
(***************************************************************************)
\* C20: on every tick that runs while no drag gesture is in progress alpha
\* moves towards zero: it does not rise, and its target is zero, so that an
\* engine left alone cools down until its timer stops.
AlphaDecaysWithoutDrag ==
    [][(IsTick /\ ~drag.active) =>
          /\ alphaTarget = 0
          /\ alpha' <= alpha]_vars

\* What holds: alpha does not rise on a tick whose target is zero, and the
\* target is zero outside a gesture unless the gesture ended on a node that
\* had become the self node.
AlphaDecaysAtTargetZero ==
    [][(IsTick /\ alphaTarget = 0) => alpha' <= alpha]_vars

(***************************************************************************)
(* SpecChat: the WebSocket of Chat.vue (72-115, 290-297) with its          *)
(* heartbeat and its reconnection timer.  Time is counted in seconds;      *)
(* a timer fires at the instant it is due.                                 *)
(***************************************************************************)
\* setInterval(..., 5000), now - lastPong > 15000, setTimeout(connect, 3000).
HeartbeatInterval == 5
PongTimeout == 15
ReconnectDelay == 3

\* The readyState of socket.value, "none" while socket.value is null.
CurrentSocket == IF chat.sockets = <<>> THEN "none" ELSE chat.sockets[Len(chat.sockets)]

\* socket.value.close(): a socket that is connecting or open starts closing.
CloseCurrent(socks) ==
    IF socks # <<>> /\ socks[Len(socks)] \in {"connecting", "open"}
    THEN [socks EXCEPT ![Len(socks)] = "closing"]
    ELSE socks

StopHeartbeatNever(c) == c

\* stopHeartbeat: clearInterval(heartbeatTimer); heartbeatTimer = null.
StopHeartbeat(c) ==
    IF c.heartbeatTimer # <<>>
    THEN [c EXCEPT !.intervals = {t \in @ : t.id # c.heartbeatTimer[1]},
                   !.heartbeatTimer = <<>>]
    ELSE c

\* startHeartbeat: stopHeartbeat(), then a new interval of 5000 ms.
StartHeartbeat(c) ==
    LET d  == StopHeartbeat(c)
        id == CHOOSE n \in 1..(Cardinality(d.intervals) + 1) :
                  \A t \in d.intervals : t.id # n
    IN  [d EXCEPT !.intervals = @ \cup {[id |-> id, left |-> HeartbeatInterval]},
                  !.heartbeatTimer = <<id>>]

ConnectNever(c) == c

\* connect(): socket.value = new WebSocket(wsUrl).  Sockets that are closed
\* raise no further event and are dropped from the list.
Connect(c) ==
    [c EXCEPT !.sockets = Append(SelectSeq(@, LAMBDA r : r # "closed"), "connecting"),
              !.ev = "connect"]

\* onMounted(() => connect()).
ChatMounted ==
    /\ chat.phase = "init"
    /\ chat' = [Connect(chat) EXCEPT !.phase = "mounted"]
    /\ UNCHANGED <<graphVars, last, poll>>

\* onopen of socket i: isConnected, lastPong = Date.now(), startHeartbeat().
SocketOpen(i) ==
    /\ chat.sockets[i] = "connecting"
    /\ chat' = [StartHeartbeat([chat EXCEPT !.sockets[i] = "open",
                                            !.isConnected = TRUE,
                                            !.lastPong = <<0>>])
                  EXCEPT !.ev = "open"]
    /\ UNCHANGED <<graphVars, last, poll>>

\* An error on socket i (the connection fails or breaks): onerror closes
\* socket.value, and the browser closes the socket that failed.
SocketError(i) ==
    /\ chat.sockets[i] \in {"connecting", "open"}
    /\ chat' = [chat EXCEPT !.sockets = CloseCurrent([@ EXCEPT ![i] = "closing"]),
                            !.ev = "error"]
    /\ UNCHANGED <<graphVars, last, poll>>

\* onclose of socket i, after a close by the server or after close() or an
\* error here: isConnected = false, stopHeartbeat(), setTimeout(connect, 3000).
SocketClose(i) ==
    /\ chat.sockets[i] \in {"open", "closing"}
    /\ chat' = [StopHeartbeat([chat EXCEPT !.sockets[i] = "closed",
                                           !.isConnected = FALSE])
                  EXCEPT !.timeouts = Append(@, ReconnectDelay),
                         !.ev = "close"]
    /\ UNCHANGED <<graphVars, last, poll>>

\* onmessage with kind 'pong' on an open socket: lastPong = Date.now().
Pong(i) ==
    /\ chat.sockets[i] = "open"
    /\ chat' = [chat EXCEPT !.lastPong = <<0>>, !.ev = "pong"]
    /\ UNCHANGED <<graphVars, last, poll>>

\* The callback of a heartbeat interval that is due: nothing unless
\* socket.value is open; close() when lastPong is set and older than
\* 15000 ms; otherwise send a ping.
Heartbeat(t) ==
    /\ t \in chat.intervals
    /\ t.left = 0
    /\ LET rearmed == (chat.intervals \ {t}) \cup {[t EXCEPT !.left = HeartbeatInterval]}
       IN  chat' =
             IF CurrentSocket # "open"
             THEN [chat EXCEPT !.intervals = rearmed, !.ev = "skip"]
             ELSE IF chat.lastPong # <<>> /\ chat.lastPong[1] > PongTimeout
                  THEN [chat EXCEPT !.intervals = rearmed,
                                    !.sockets = CloseCurrent(@),
                                    !.ev = "timeout"]
                  ELSE [chat EXCEPT !.intervals = rearmed, !.ev = "ping"]
    /\ UNCHANGED <<graphVars, last, poll>>

\* The callback of a setTimeout(connect, 3000) that is due.
Reconnect(k) ==
    /\ k \in DOMAIN chat.timeouts
    /\ chat.timeouts[k] = 0
    /\ chat' = Connect([chat EXCEPT !.timeouts =
                           SubSeq(@, 1, k - 1) \o SubSeq(@, k + 1, Len(@))])
    /\ UNCHANGED <<graphVars, last, poll>>

\* One second passes while no timer is due.
Second ==
    /\ chat.phase # "init"
    /\ \A t \in chat.intervals : t.left > 0
    /\ \A k \in DOMAIN chat.timeouts : chat.timeouts[k] > 0
    /\ chat' = [chat EXCEPT
          !.intervals = {[t EXCEPT !.left = @ - 1] : t \in @},
          !.timeouts = [k \in DOMAIN @ |-> @[k] - 1],
          !.lastPong = IF @ = <<>> THEN @
                       ELSE IF @[1] > PongTimeout THEN @ ELSE <<@[1] + 1>>,
          !.ev = "second"]
    /\ UNCHANGED <<graphVars, last, poll>>

\* onUnmounted: stopHeartbeat(); if (socket.value) socket.value.close().
ChatUnmounted ==
    /\ chat.phase = "mounted"
    /\ chat' = [StopHeartbeat(chat) EXCEPT !.phase = "unmounted",
                                           !.sockets = CloseCurrent(@),
                                           !.ev = "unmount"]
    /\ UNCHANGED <<graphVars, last, poll>>

\* The graph is not part of SpecChat: its variables stay as set up.
InitChat == InitPorts

NextChat ==
    \/ ChatMounted
    \/ \E i \in DOMAIN chat.sockets : SocketOpen(i)
    \/ \E i \in DOMAIN chat.sockets : SocketError(i)
    \/ \E i \in DOMAIN chat.sockets : SocketClose(i)
    \/ \E i \in DOMAIN chat.sockets : Pong(i)
    \/ \E t \in chat.intervals : Heartbeat(t)
    \/ \E k \in DOMAIN chat.timeouts : Reconnect(k)
    \/ Second
    \/ ChatUnmounted

SpecChat == InitChat /\ [][NextChat]_vars

(***************************************************************************)
(* Properties of the chat socket, checked under SpecChat.                  *)
(***************************************************************************)
\* A connection attempt exists or is scheduled.
AttemptAlive ==
    CurrentSocket \in {"connecting", "open", "closing"} \/ chat.timeouts # <<>>

\* C21: whenever a socket closes while the chat component is mounted (after
\* a close by the server, an error or a heartbeat timeout), a call of
\* connect is scheduled 3000 ms ahead; the call opens a new socket when it
\* is due; a mounted component is never without a socket that is connecting,
\* open or closing and without a scheduled attempt.
ReconnectAfterClose ==
    /\ [](chat.phase = "mounted" => AttemptAlive)
    /\ [][/\ \A i \in DOMAIN chat.sockets :
                (SocketClose(i) /\ chat.phase = "mounted") =>
                    /\ Len(chat'.timeouts) = Len(chat.timeouts) + 1
                    /\ chat'.timeouts[Len(chat'.timeouts)] = ReconnectDelay
          /\ \A k \in DOMAIN chat.timeouts :
                Reconnect(k) =>
                    /\ chat.timeouts[k] = 0
                    /\ CurrentSocket' = "connecting"]_vars

\* A mounted chat has connected again after a socket that had been open.
ReconnectedWitness ==
    /\ chat.phase = "mounted"
    /\ chat.ev = "connect"
    /\ chat.lastPong # <<>>
    /\ CurrentSocket = "connecting"

\* C22: a heartbeat interval is armed for 5000 ms when the socket opens and
\* after each of its ticks; at a tick with the socket open a ping is sent,
\* unless more than 15000 ms have passed since lastPong, in which case the
\* socket is closed and no ping is sent; a pong sets lastPong to the
\* present; at most one heartbeat interval exists, and none while
\* socket.value is closed.
HeartbeatDetectsDead ==
    /\ [](/\ Cardinality(chat.intervals) <= 1
          /\ CurrentSocket \in {"none", "closed"} => chat.intervals = {})
    /\ [][/\ \A t \in chat.intervals :
                Heartbeat(t) =>
                    /\ \E u \in chat'.intervals : u.left = HeartbeatInterval
                    /\ CurrentSocket = "open" =>
                          IF chat.lastPong[1] > PongTimeout
                          THEN chat'.ev = "timeout" /\ CurrentSocket' = "closing"
                          ELSE chat'.ev = "ping" /\ chat'.sockets = chat.sockets
          /\ \A i \in DOMAIN chat.sockets :
                /\ Pong(i) => chat'.lastPong = <<0>>
                /\ SocketOpen(i) =>
                      /\ chat'.lastPong = <<0>>
                      /\ chat'.intervals = {[id |-> chat'.heartbeatTimer[1],
                                             left |-> HeartbeatInterval]}]_vars

\* A heartbeat tick has closed an open socket whose last pong was more than
\* 15000 ms old.
HeartbeatTimeoutWitness ==
    /\ chat.ev = "timeout"
    /\ CurrentSocket = "closing"
    /\ chat.lastPong[1] > PongTimeout

\* C30: after onUnmounted no socket is created and no heartbeat interval is
\* started.
NoConnectAfterUnmount ==
    [][chat.phase = "unmounted" =>
          /\ chat'.ev # "connect"
          /\ chat'.intervals = {}]_vars

\* What happens: the close of onUnmounted raises onclose, which schedules
\* connect as for any other close.
UnmountSchedulesConnect ==
    [][\A i \in DOMAIN chat.sockets :
          (SocketClose(i) /\ chat.phase = "unmounted") =>
              chat'.timeouts = Append(chat.timeouts, ReconnectDelay)]_vars

(***************************************************************************)
(* The self node and the pins, checked under Spec.                         *)
(***************************************************************************)
\* C23: a drag-start, drag-move or drag-end event whose node is the self
\* node leaves the node list, pins included, and alphaTarget unchanged, and
\* a drag-start on the self node begins no gesture.
SelfNotDraggable ==
    [][/\ \A id \in NodeIds(nodes) :
              (DragStart(id) /\ NodeOf(nodes, id).type = "self") =>
                  UNCHANGED <<nodes, alphaTarget, drag>>
       /\ \A p \in Pointers :
              (DragMove(p) /\ DragType = "self") =>
                  UNCHANGED <<nodes, alphaTarget>>
       /\ (DragEnd /\ DragType = "self") =>
              UNCHANGED <<nodes, alphaTarget>>]_vars

\* A gesture has ended on a node that had become the self node: no gesture
\* is in progress and alphaTarget is still that of the gesture.
DragEndedOnSelfWitness ==
    /\ ~drag.active
    /\ alphaTarget = 300
    /\ \E i \in DOMAIN nodes : nodes[i].type = "self" /\ Pinned(nodes[i])

(***************************************************************************)
(* SpecIds: edge id synthesis (NetworkGraph.vue 404-487) on peer ids and   *)
(* connection ids that contain '-' or are "conn".  The graph is mounted as *)
(* in SpecPorts; the data service delivers one snapshot, and the logical   *)
(* links are built from it.                                                *)
(***************************************************************************)
\* The peers of the snapshots of SpecIds, in order.
OddPeers == <<"a", "a-b", "conn", "c", "b-c">>

\* Their connection records: from one of the first three peers to one of
\* the last two, without an id or under the id "c-0".
OddRecords == [ends : {"a", "a-b", "conn"} \X {"c", "b-c"}, id : {"", "c-0"}]

\* The snapshot in which each peer reports the records of recs that start
\* at it, in the order of recs.
OddSnapshotOf(recs) ==
    LET ConnsOf(id) ==
            LET mine == SelectSeq(recs, LAMBDA r : r.ends[1] = id)
            IN  [i \in 1..Len(mine) |->
                    [peer_id |-> mine[i].ends[2], id |-> mine[i].id,
                     bandwidth_mbps |-> 10, latency_ms |-> 10]]
    IN  Snapshot("a", [p \in DOMAIN OddPeers |-> Peer(OddPeers[p], ConnsOf(OddPeers[p]))])

OddSnapshots ==
    {OddSnapshotOf(recs) : recs \in UNION {[1..n -> OddRecords] : n \in 0..MaxConns}}

\* fetchData: apiData.value = data queues the watcher job.
FetchIds ==
    /\ phase = "mounted"
    /\ ~pending
    /\ apiData = Some(PortBaseSnapshot)
    /\ \E d \in OddSnapshots : apiData' = Some(d)
    /\ pending' = TRUE
    /\ last' = Other
    /\ UNCHANGED <<client, width, height, nodes, links, forceLinks, forceLen,
                   alpha, alphaTarget, running, drag, nodePositions, phase,
                   chat, poll>>

\* The watcher job: updateGraph up to the end of edge id synthesis.
BuildLogicalLinks ==
    /\ pending
    /\ pending' = FALSE
    /\ links' = LogicalLinks(apiData[1])
    /\ last' = [op |-> "ids", ids |-> NodeIds(nodes), thrown |-> FALSE]
    /\ UNCHANGED <<phase, apiData, client, width, height, nodes, forceLinks,
                   forceLen, alpha, alphaTarget, running, drag, nodePositions,
                   chat, poll>>

NextIds ==
    \/ FetchIds
    \/ BuildLogicalLinks

SpecIds == InitPorts /\ [][NextIds]_vars

\* No two logical edges carry the same id.
DistinctEdgeIds ==
    \A e1, e2 \in DOMAIN links : e1 # e2 => links[e1].id # links[e2].id

\* C24: within one snapshot the ids of the logical edges are pairwise
\* distinct, whatever the peer ids and connection ids are, ids with '-' and
\* the peer id "conn" included.
EdgeIdsDistinct == (last.op = "ids" /\ ~pending) => DistinctEdgeIds

\* What holds: the ids are pairwise distinct for the peer ids self, B, C
\* and the connection ids x, y; checked under SpecLinks.
PlainEdgeIdsDistinct == Processed => DistinctEdgeIds

\* The node is the one of the gesture in progress.
Dragged(n) == drag.active /\ drag.attached /\ drag.id = n.id

\* C25: in every reachable state a pinned node is the self node or the peer
\* of the drag gesture in progress; a node that was self and is a peer in
\* the next snapshot is not pinned once that snapshot is processed.
PinnedOnlySelfOrDragged ==
    \A i \in DOMAIN nodes :
        Pinned(nodes[i]) => nodes[i].type = "self" \/ Dragged(nodes[i])

\* What updateGraph does with a reused node: a pin is never removed, so a
\* node that was pinned before the call and is kept is pinned after it.
PinsSurviveUpdate ==
    [][IsCall =>
          \A i \in DOMAIN nodes' :
              (nodes'[i].id \in NodeIds(nodes)
                  /\ Pinned(NodeOf(nodes, nodes'[i].id))) => Pinned(nodes'[i])]_vars

\* The step is an updateGraph call during a gesture whose node is among
\* the peers of the new snapshot.
CallDuringDrag ==
    /\ IsCall
    /\ drag.active /\ drag.attached
    /\ drag.id \in PeerIdsOf(apiData'[1])

\* The pin of the dragged node is the same before and after the step.
DragPinKept ==
    /\ NodeOf(nodes', drag.id).fx = NodeOf(nodes, drag.id).fx
    /\ NodeOf(nodes', drag.id).fy = NodeOf(nodes, drag.id).fy

\* C26 as stated: a snapshot processed during the drag of a peer node that
\* is still present in the snapshot leaves the pin of that node unchanged.
DragPinKeptAcrossUpdate == [][CallDuringDrag => DragPinKept]_vars

\* C26, amended: the pin is unchanged when the node is present in the
\* snapshot and is not the snapshot's self node; the gesture goes on.
DragPinKeptWhileStillPeer ==
    [][(CallDuringDrag /\ apiData'[1].peer_id # drag.id) =>
          /\ DragPinKept
          /\ drag' = drag
          /\ NodeOf(nodes', drag.id).type = "peer"]_vars

\* A snapshot has just been processed during a gesture, and the dragged
\* peer is pinned at the pointer.
UpdateDuringDragWitness ==
    /\ last.op = "update"
    /\ drag.active /\ drag.attached
    /\ \E p \in Pointers :
          /\ NodeOf(nodes, drag.id).fx = Some(p[1])
          /\ NodeOf(nodes, drag.id).fy = Some(p[2])
    /\ NodeOf(nodes, drag.id).type = "peer"

MaxRequests == 3

\* The urls startDataFetching is called with (App.vue, Header.vue).
Urls == {"/api", "/other"}

\* The body of the response to a request: the snapshot of the server at the
\* request's url, marked with the issue number of the request.
Response(req) ==
    [peer_id |-> IF req.url = "/api" THEN "self" ELSE "B",
     peers |-> <<>>, request |-> req.n]

\* stopDataFetching: clearInterval(fetchInterval), fetchInterval = null,
\* connectionStatus = 'disconnected'.
Stopped(p) ==
    [p EXCEPT !.fetchInterval = <<>>, !.connectionStatus = "disconnected"]

\* fetchData up to its first await: connectionStatus becomes 'loading'
\* unless it is 'connected', and fetch(url) is issued.
Issue(p, url) ==
    [p EXCEPT !.connectionStatus = IF @ = "connected" THEN @ ELSE "loading",
              !.requests = @ \cup {[url |-> url, n |-> p.issued + 1]},
              !.issued = @ + 1]

\* startDataFetching(url): stopDataFetching(), fetchData(), and
\* fetchInterval = setInterval(fetchData, 1000).
StartDataFetching(url) ==
    /\ poll.issued < MaxRequests
    /\ poll' = [Issue(Stopped(poll), url) EXCEPT !.fetchInterval = <<url>>,
                                                 !.ev = "start"]
    /\ UNCHANGED <<graphVars, last, chat>>

\* The interval is due: fetchData of the closure that set it, whether or
\* not an earlier fetch has completed.
IntervalFetch ==
    /\ poll.fetchInterval # <<>>
    /\ poll.issued < MaxRequests
    /\ poll' = [Issue(poll, poll.fetchInterval[1]) EXCEPT !.ev = "interval"]
    /\ UNCHANGED <<graphVars, last, chat>>

StopDataFetching ==
    /\ poll' = [Stopped(poll) EXCEPT !.ev = "stop"]
    /\ UNCHANGED <<graphVars, last, chat>>

\* The awaits of fetchData resume with a good response:
\* apiData.value = data; connectionStatus.value = 'connected'.
ResponseOk(req) ==
    /\ req \in poll.requests
    /\ apiData' = Some(Response(req))
    /\ poll' = [poll EXCEPT !.requests = @ \ {req},
                            !.connectionStatus = "connected", !.ev = "ok"]
    /\ UNCHANGED <<phase, pending, client, width, height, nodes, links,
                   forceLinks, forceLen, alpha, alphaTarget, running, drag,
                   nodePositions, last, chat>>

\* The awaits resume with an error, or response.ok is false: the catch
\* block sets connectionStatus = 'disconnected'.
ResponseFailed(req) ==
    /\ req \in poll.requests
    /\ poll' = [poll EXCEPT !.requests = @ \ {req},
                            !.connectionStatus = "disconnected", !.ev = "failed"]
    /\ UNCHANGED <<graphVars, last, chat>>

\* The stores and the module state when the application is loaded.
InitPoll ==
    /\ phase = "init"
    /\ apiData = None
    /\ pending = FALSE
    /\ client = <<400, 300>>
    /\ width = 800
    /\ height = 600
    /\ nodes = <<>>
    /\ links = <<>>
    /\ forceLinks = <<>>
    /\ forceLen = 0
    /\ alpha = 0
    /\ alphaTarget = 0
    /\ running = FALSE
    /\ drag = NoDrag
    /\ last = Other
    /\ nodePositions = <<>>
    /\ chat = ChatIdle
    /\ poll = PollIdle

NextPoll ==
    \/ \E url \in Urls : StartDataFetching(url)
    \/ IntervalFetch
    \/ StopDataFetching
    \/ \E req \in poll.requests : ResponseOk(req)
    \/ \E req \in poll.requests : ResponseFailed(req)

SpecPoll == InitPoll /\ [][NextPoll]_vars

\* C28: while fetchInterval is null (from stopDataFetching to the next
\* startDataFetching) connectionStatus is 'disconnected' and apiData is not
\* written, also when a fetch issued earlier completes; and a response is
\* written to apiData only if its request was issued for the url of the
\* current startDataFetching call.
StoppedMeansNoWrite ==
    [][/\ (poll.fetchInterval = <<>> /\ poll'.fetchInterval = <<>>) =>
              /\ apiData' = apiData
              /\ poll'.connectionStatus = "disconnected"
       /\ \A req \in poll.requests :
              ResponseOk(req) => poll.fetchInterval = <<req.url>>]_vars

\* What stopDataFetching does: the interval is cleared and the status set,
\* and the fetches in flight stay in flight.
StopLeavesRequests ==
    [][StopDataFetching =>
          /\ poll'.fetchInterval = <<>>
          /\ poll'.connectionStatus = "disconnected"
          /\ poll'.requests = poll.requests]_vars

\* C29: apiData never goes from the response to a request to the response
\* to a request issued earlier.
ResponsesInRequestOrder ==
    [][(IsSet(apiData) /\ IsSet(apiData')) =>
          apiData'[1].request >= apiData[1].request]_vars

\* What fetchData does: whichever response arrives is written.
EveryResponseWritten ==
    [][\A req \in poll.requests :
          ResponseOk(req) => apiData' = Some(Response(req))]_vars

====
